---- MODULE Spec2Model ----
(***************************************************************************)
(* Model of the upload path of goldenverba/server: BatchManager (fragment  *)
(* reassembly) and LoggerManager (status reports over the websocket), both *)
(* from goldenverba/server/helpers.py.                                     *)
(*                                                                         *)
(* Text is modelled as a sequence of tokens.  A valid document text is cut *)
(* in two halves, "H" (its head) and "T" (its tail): the only text that    *)
(* FileConfig.model_validate_json accepts is <<"H", "T">>.                 *)
(***************************************************************************)
EXTENDS Integers, Sequences, FiniteSets, TLC

VARIABLES
    batches,            \* BatchManager.batches: fileID -> session
    call,               \* the last add_batch call: its payload, locals and result
    socket,             \* LoggerManager.socket is not None
    websocket_failed,   \* LoggerManager.websocket_failed
    error_logged,       \* LoggerManager.error_logged
    rep,                \* the current / last LoggerManager call and its position
    ncalls,             \* how many LoggerManager calls were made so far
    store,              \* the titles of the documents the store holds
    probe,              \* the current / last check_document_in_weaviate_with_retry
    run,                \* the current / last resilient_import_document
    loop,               \* the handler websocket_import_files of one connection
    conn                \* two connections side by side: whose report is under way,
                        \* and the BatchManager of the other connection

vars ==
    <<batches, call, socket, websocket_failed, error_logged, rep, ncalls,
      store, probe, run, loop, conn>>

batchVars == <<batches, call>>
loggerVars == <<socket, websocket_failed, error_logged, rep, ncalls>>
probeVars == <<store, probe>>
runVars == <<run>>
loopVars == <<loop, conn>>

----------------------------------------------------------------------------
(* Bounds of the model *)

\* fragment indices (payload.order) range over 0..MaxOrder, declared totals
\* (payload.total) over 1..MaxOrder+1
MaxOrder == 1
\* a LoggerManager serves at most MaxCalls calls
MaxCalls == 4
\* one connection hands at most MaxUploads completed uploads to the reconciliation
MaxUploads == 2

\* the upload ids of the fragments fed to the assembler
FileIDs == {"f1"}
Orders == 0..MaxOrder
Totals == 0..(MaxOrder + 1)
\* the fragment texts: the head of a document, its tail, and a whole document
Chunks == {<<"H">>, <<"T">>, <<"H", "T">>}

Payloads ==
    [fileID : FileIDs, total : Totals, order : Orders, chunk : Chunks,
     isLastChunk : BOOLEAN]

----------------------------------------------------------------------------
(* BatchManager *)

\* a fileID that is not a key of self.batches
NoSession == [present |-> FALSE, total |-> 0, chunks |-> <<>>]

\* Python's None and a FileConfig, as add_batch / check_batch return them
None == [kind |-> "None", data |-> <<>>]
FileConfig(data) == [kind |-> "FileConfig", data |-> data]

\* FileConfig.model_validate_json: accepts exactly the document text
ValidDoc(data) == data = <<"H", "T">>

DictHas(d, k) == \E i \in 1..Len(d) : d[i].order = k
\* DictSet as a list would do it: every write appends
DictSetAppends(d, k, v) == Append(d, [order |-> k, chunk |-> v])
\* a dict keyed by order, in insertion order: d[k] = v
DictSet(d, k, v) ==
    IF DictHas(d, k)
    THEN [i \in 1..Len(d) |-> IF d[i].order = k THEN [order |-> k, chunk |-> v] ELSE d[i]]
    ELSE Append(d, [order |-> k, chunk |-> v])
DictGet(d, k) == d[CHOOSE i \in 1..Len(d) : d[i].order = k].chunk
DictKeys(d) == {d[i].order : i \in 1..Len(d)}

\* "".join([chunks[chunk] for chunk in chunks]): the values in the dict's
\* iteration order, which is its insertion order
RECURSIVE Join(_)
Join(d) == IF d = <<>> THEN <<>> ELSE d[1].chunk \o Join(Tail(d))

\* a table that keeps one declared total for all its sessions
RecordChunkOneTotal(b, p) ==
    LET s == IF b[p.fileID].present
             THEN b[p.fileID]
             ELSE [present |-> TRUE, total |-> p.total, chunks |-> <<>>]
    IN  [f \in DOMAIN b |->
            IF f = p.fileID
            THEN [s EXCEPT !.chunks = DictSet(s.chunks, p.order, p.chunk)]
            ELSE IF b[f].present THEN [b[f] EXCEPT !.total = p.total] ELSE b[f]]

\* a table whose session takes the total of every fragment it records
RecordChunkLatestTotal(b, p) ==
    LET s == IF b[p.fileID].present
             THEN b[p.fileID]
             ELSE [present |-> TRUE, total |-> p.total, chunks |-> <<>>]
    IN  [b EXCEPT ![p.fileID] = [s EXCEPT !.total = p.total,
                                          !.chunks = DictSet(s.chunks, p.order, p.chunk)]]

\* add_batch, lines 148-155: create the session on first sight, record the chunk
RecordChunk(b, p) ==
    LET s == IF b[p.fileID].present
             THEN b[p.fileID]
             ELSE [present |-> TRUE, total |-> p.total, chunks |-> <<>>]
    IN  [b EXCEPT ![p.fileID] = [s EXCEPT !.chunks = DictSet(s.chunks, p.order, p.chunk)]]

\* check_batch: the descriptor, None, or the ValidationError of the parse
\* a completion test that is satisfied by a count at or past the total
AllCollectedAtLeast(count, total) == count >= total

\* check_batch, line 169: the count of recorded indices equals the total
AllCollected(count, total) == count = total

check_batch(b, fileID) ==
    LET chunks == b[fileID].chunks IN
    IF AllCollected(Len(chunks), b[fileID].total)
    THEN LET data == Join(chunks) IN
         [assembled |-> TRUE, data |-> data,
          raises |-> ~ValidDoc(data),
          value |-> IF ValidDoc(data) THEN FileConfig(data) ELSE None]
    ELSE [assembled |-> FALSE, data |-> <<>>, raises |-> FALSE, value |-> None]

\* add_batch without its except block: the parse error reaches the caller
OnAddBatchErrorPropagates == "raise"
\* add_batch's "except Exception": the failure is logged and the method falls
\* off its end, returning None
OnAddBatchError == "return"

\* a table that forgets the session after every fragment
RemoveSessionAlways(fileConfig, p) == TRUE
\* the removal test without its descriptor half
RemoveSessionOnlyOnSignal(fileConfig, p) == p.isLastChunk
\* the removal test without its isLastChunk half
RemoveSessionOnlyWhenParsed(fileConfig, p) == fileConfig # None
\* add_batch's "if fileConfig is not None or payload.isLastChunk"
RemoveSession(fileConfig, p) == fileConfig # None \/ p.isLastChunk

\* add_batch: the table and the call's outcome
add_batch(b, p) ==
    LET recorded == RecordChunk(b, p)
        checked == check_batch(recorded, p.fileID)
        seen == [fileID |-> p.fileID, order |-> p.order, chunk |-> p.chunk,
                 isLastChunk |-> p.isLastChunk, declared |-> p.total,
                 overwrote |-> b[p.fileID].present /\ DictHas(b[p.fileID].chunks, p.order),
                 total |-> recorded[p.fileID].total,
                 chunks |-> recorded[p.fileID].chunks,
                 assembled |-> checked.assembled, data |-> checked.data]
    IN  IF checked.raises
        THEN \* the exception leaves the try block before the del
             [batches |-> recorded,
              call |-> seen @@ [outcome |-> OnAddBatchError, ret |-> None]]
        ELSE [batches |-> IF RemoveSession(checked.value, p)
                          THEN [recorded EXCEPT ![p.fileID] = NoSession]
                          ELSE recorded,
              call |-> seen @@ [outcome |-> "return", ret |-> checked.value]]

NoCall ==
    [fileID |-> "", order |-> 0, chunk |-> <<>>, isLastChunk |-> FALSE, declared |-> 0,
     overwrote |-> FALSE, total |-> 0, chunks |-> <<>>, assembled |-> FALSE,
     data |-> <<>>, outcome |-> "none", ret |-> None]

\* the second connection has received nothing, and no report is under way
NoConn ==
    [file_Id |-> "none", failedBy |-> "none",
     peerBatches |-> [f \in FileIDs |-> NoSession], peerCall |-> NoCall]

AddBatch(p) ==
    /\ batches' = add_batch(batches, p).batches
    /\ call' = add_batch(batches, p).call

\* two uploads in one table: fragments of f1 and f2, of one or two chunks
FrameIDs == {"f1", "f2"}
FramePayloads ==
    {[p EXCEPT !.fileID = f] : p \in {q \in Payloads : q.total \in 1..2 /\ q.order <= 1},
                               f \in FrameIDs}

FrameNext ==
    \E p \in FramePayloads :
        AddBatch(p) /\ UNCHANGED <<loggerVars, probeVars, runVars, loopVars>>

BatchNext == \E p \in Payloads : AddBatch(p) /\ UNCHANGED <<loggerVars, probeVars, runVars, loopVars>>

----------------------------------------------------------------------------
(* LoggerManager *)

\* LoggerManager.__init__: self.max_retries
max_retries == 3

\* FileStatus values: the two terminal ones and one that stands for the rest
Statuses == {"PROCESSING", "DONE", "ERROR"}

\* what one "await self.socket.send_json(payload)" does: it returns, or raises
\* an error whose text holds one of the phrases of lines 59-63, or another error
SendResults == {"ok", "permanent", "transient"}

\* the reset test taken for every status
IsCriticalAlways(status) == TRUE
\* a reporter without the reset: no status revives a failed reporter
IsCriticalNever(status) == FALSE
\* the reset test that forgets FileStatus.ERROR
IsCriticalOnlyDone(status) == status = "DONE"
\* send_report, line 28: "if status in [FileStatus.DONE, FileStatus.ERROR]"
IsCritical(status) == status \in {"DONE", "ERROR"}

\* the except block letting the failure of the last attempt out
OnSendErrorRaisesLast(err, attempt) ==
    IF err = "permanent" THEN "fail"
    ELSE IF attempt < 2 THEN "sleep"
    ELSE "raise"
\* the except block with "attempt < self.max_retries": a pause after every failure
OnSendErrorOffByOne(err, attempt) ==
    IF err = "permanent" THEN "fail"
    ELSE IF attempt < 3 THEN "sleep"
    ELSE "fail"
\* the except block that gives up at the first failure
OnSendErrorNoRetry(err, attempt) == "fail"
\* the except block without the test of the error's text
OnSendErrorNoSignature(err, attempt) ==
    IF attempt < 2 THEN "sleep" ELSE "fail"
\* _try_send_with_retry's except block for the failure of attempt number
\* `attempt` (from 0): give up ("fail"), pause and go round again ("sleep")
OnSendError(err, attempt) ==
    IF err = "permanent" THEN "fail"
    ELSE IF attempt < max_retries - 1 THEN "sleep"
    ELSE "fail"

NoRep ==
    [op |-> "none", status |-> "PROCESSING", pc |-> "idle", attempt |-> 0,
     events |-> <<>>, resets |-> 0, failedAtEntry |-> FALSE,
     causeAtEntry |-> "none", outcome |-> "none"]

\* what set websocket_failed, as a call entered after the call r finds it:
\* "retries" (line 78: every attempt of a report failed), "permanent" (line 66),
\* "single" (lines 119, 134: the one attempt of a heartbeat or a notification)
FailureCause(r, failed) ==
    IF ~failed THEN "none"
    ELSE IF r.events = <<>> THEN r.causeAtEntry
    ELSE IF r.op # "send_report" THEN "single"
    ELSE IF r.events[Len(r.events)] = "permanent" THEN "permanent"
    ELSE "retries"

\* send_report up to its first await: the reset for a critical status, then the
\* test "self.socket is not None and not self.websocket_failed"
SendReport(status) ==
    /\ rep.pc = "idle"
    /\ ncalls < MaxCalls
    /\ ncalls' = ncalls + 1
    /\ LET reset == IsCritical(status) /\ websocket_failed
           failed == IF reset THEN FALSE ELSE websocket_failed
           go == socket /\ ~failed
       IN  /\ websocket_failed' = failed
           /\ error_logged' = IF reset THEN FALSE ELSE error_logged
           /\ rep' = [op |-> "send_report", status |-> status,
                      pc |-> IF go THEN "send" ELSE "idle", attempt |-> 0,
                      events |-> <<>>, resets |-> IF reset THEN 1 ELSE 0,
                      failedAtEntry |-> websocket_failed,
                      causeAtEntry |-> FailureCause(rep, websocket_failed),
                      outcome |-> IF go THEN "running" ELSE "returned"]
    /\ UNCHANGED socket

\* one iteration of _try_send_with_retry's loop: the send_json call and, when
\* it raises, the except block up to its return or its sleep
TrySend(result) ==
    /\ rep.pc = "send"
    /\ LET next == IF result = "ok" THEN "return" ELSE OnSendError(result, rep.attempt)
       IN  /\ rep' = [rep EXCEPT !.events = Append(@, result),
                                 !.pc = IF next = "sleep" THEN "sleep" ELSE "idle",
                                 !.outcome = CASE next = "sleep" -> "running"
                                               [] next = "raise" -> "raised"
                                               [] OTHER -> "returned"]
           /\ websocket_failed' = IF next = "fail" THEN TRUE ELSE websocket_failed
           /\ error_logged' = IF next = "fail" THEN TRUE ELSE error_logged
    /\ UNCHANGED <<socket, ncalls>>

\* the pause of a loop that goes round until a send succeeds
SleepAndRetry ==
    /\ rep.pc = "sleep"
    /\ rep' = [rep EXCEPT !.events = Append(@, "sleep"), !.pc = "send"]
    /\ UNCHANGED <<socket, websocket_failed, error_logged, ncalls>>

\* the end of "await asyncio.sleep(0.5)": the next iteration of the loop
Sleep ==
    /\ rep.pc = "sleep"
    /\ rep' = [rep EXCEPT !.events = Append(@, "sleep"),
                          !.attempt = @ + 1,
                          !.pc = IF rep.attempt + 1 < max_retries THEN "send" ELSE "idle",
                          !.outcome = IF rep.attempt + 1 < max_retries
                                      THEN "running" ELSE "returned"]
    /\ UNCHANGED <<socket, websocket_failed, error_logged, ncalls>>

\* a handler that gives up only on the connection-state errors
OnOneShotErrorOnlyPermanent(failed, result) ==
    IF result = "permanent" THEN TRUE ELSE failed

\* the except blocks of send_heartbeat (line 119) and create_new_document
\* (line 134): any exception of the one send_json sets websocket_failed
OnOneShotError(failed, result) ==
    IF result # "ok" THEN TRUE ELSE failed

\* send_heartbeat: one send_json without retry, when the socket looks connected
\* (`connected` is what _is_websocket_connected answers for a socket)
SendHeartbeat(connected, result) ==
    /\ rep.pc = "idle"
    /\ ncalls < MaxCalls
    /\ ncalls' = ncalls + 1
    /\ LET go == socket /\ ~websocket_failed /\ connected
       IN  /\ rep' = [op |-> "send_heartbeat", status |-> "PROCESSING", pc |-> "idle",
                      attempt |-> 0, events |-> IF go THEN <<result>> ELSE <<>>,
                      resets |-> 0, failedAtEntry |-> websocket_failed,
                      causeAtEntry |-> FailureCause(rep, websocket_failed),
                      outcome |-> "returned"]
           /\ websocket_failed' = IF go THEN OnOneShotError(websocket_failed, result)
                                         ELSE websocket_failed
    /\ UNCHANGED <<socket, error_logged>>

\* create_new_document: one send_json without retry
CreateNewDocument(result) ==
    /\ rep.pc = "idle"
    /\ ncalls < MaxCalls
    /\ ncalls' = ncalls + 1
    /\ LET go == socket /\ ~websocket_failed
       IN  /\ rep' = [op |-> "create_new_document", status |-> "PROCESSING",
                      pc |-> "idle", attempt |-> 0,
                      events |-> IF go THEN <<result>> ELSE <<>>,
                      resets |-> 0, failedAtEntry |-> websocket_failed,
                      causeAtEntry |-> FailureCause(rep, websocket_failed),
                      outcome |-> "returned"]
           /\ websocket_failed' = IF go THEN OnOneShotError(websocket_failed, result)
                                         ELSE websocket_failed
           /\ error_logged' = IF go /\ result # "ok" THEN TRUE ELSE error_logged
    /\ UNCHANGED socket

LoggerNext ==
    \/ \E status \in Statuses : SendReport(status) /\ UNCHANGED <<batchVars, probeVars, runVars, loopVars>>
    \/ \E result \in SendResults : TrySend(result) /\ UNCHANGED <<batchVars, probeVars, runVars, loopVars>>
    \/ Sleep /\ UNCHANGED <<batchVars, probeVars, runVars, loopVars>>
    \/ \E connected \in BOOLEAN, result \in SendResults :
           SendHeartbeat(connected, result) /\ UNCHANGED <<batchVars, probeVars, runVars, loopVars>>
    \/ \E result \in SendResults : CreateNewDocument(result) /\ UNCHANGED <<batchVars, probeVars, runVars, loopVars>>

----------------------------------------------------------------------------
(* check_document_in_weaviate_with_retry (api.py) *)

\* the max_retries every caller passes (and the parameter's default)
probe_max_retries == 3
\* the bm25 query's limit
bm25_limit == 5

\* document titles: a name, a longer name that a ranked search finds close to
\* it, and the name in another case
Titles == {"A.pdf", "AA.pdf", "a.pdf"}

\* the two connections a probe can be given
Clients == {"supplied", "fresh"}

\* what "await client.collections.exists(...)" does
ExistsResponses == {"yes", "no", "raise"}

\* what the bm25 query under asyncio.wait_for does: an answer with some of the
\* stored documents (a ranking, not a filter), the timeout, or another error
RankedResponses(st) ==
    {[kind |-> "timeout", objects |-> {}], [kind |-> "raise", objects |-> {}]}
    \cup {[kind |-> "objects", objects |-> S] :
             S \in {T \in SUBSET st : Cardinality(T) <= bm25_limit}}

\* what fetch_objects with Filter.by_property("title").equal(filename), limit=1
\* does: at most one stored document of that title, or an error
FallbackResponses(st, filename) ==
    {[kind |-> "raise", objects |-> {}]}
    \cup {[kind |-> "objects", objects |-> S] :
             S \in {T \in SUBSET {t \in st : t = filename} : Cardinality(T) <= 1}}

\* a title test that ignores the case of the letters
Lower(title) == IF title = "A.pdf" THEN "a.pdf" ELSE title
TitleMatchesNoCase(title, filename) == Lower(title) = Lower(filename)
\* a title test that takes any candidate of the ranked answer
TitleMatchesAny(title, filename) == TRUE
\* line 240: doc.properties.get("title") == fileConfig.filename
TitleMatches(title, filename) == title = filename

\* a probe that takes a store error for a document found
OnProbeErrorFound == "found"
\* the probe letting a store error out to its caller
OnProbeErrorPropagates == "raise"
\* the outer "except Exception" of the attempt: the error counts as a miss
OnProbeError == "miss"

\* a probe that searches a collection that is not there
OnMissingCollectionSearches == "search"
\* lines 215-221: without the collection the attempt is over, a miss
OnMissingCollection == "miss"

\* a probe that asks the property filter after any failure of the ranked search
FallbackOnAnyFailure(kind) == kind \in {"timeout", "raise"}
\* line 259: "except asyncio.TimeoutError" alone leads to the property filter
FallbackOn(kind) == kind = "timeout"

\* a probe that sleeps after its last attempt too
IsLastAttemptNever(attempt) == FALSE
\* "if attempt < max_retries - 1: sleep; continue" and its else: return False
IsLastAttempt(attempt) == ~(attempt < probe_max_retries - 1)

\* one iteration of the loop up to its return, its sleep or its continue: what
\* happened (event), whether a document was found, the pause before the next
\* attempt, the store calls made (queries) and the documents they answered
\* a fallback branch that repeats the title test of the ranked branch
FallbackAcceptsExact(doc, filename) == doc = filename

\* lines 273-276: any object of the fallback answer makes the probe return True
FallbackAccepts(doc, filename) == TRUE

probe_attempt(filename, exists, ranked, fallback) ==
    LET error(at, q) == [event |-> at, verdict |-> OnProbeError, backoff |-> 2,
                         queries |-> q, candidates |-> {}]
    IN
    IF exists = "raise" THEN error("error_exists", <<"exists">>)
    ELSE IF exists = "no" /\ OnMissingCollection = "miss"
    THEN [event |-> "nocoll", verdict |-> "miss", backoff |-> 1,
          queries |-> <<"exists">>, candidates |-> {}]
    ELSE IF ranked.kind = "objects" THEN
        IF ranked.objects # {} THEN
            IF \E doc \in ranked.objects : TitleMatches(doc, filename)
            THEN [event |-> "hit", verdict |-> "found", backoff |-> 0,
                  queries |-> <<"exists", "bm25">>, candidates |-> ranked.objects]
            ELSE [event |-> "close", verdict |-> "miss", backoff |-> 2,
                  queries |-> <<"exists", "bm25">>, candidates |-> ranked.objects]
        ELSE [event |-> "empty", verdict |-> "miss", backoff |-> 2,
              queries |-> <<"exists", "bm25">>, candidates |-> {}]
    ELSE IF ~FallbackOn(ranked.kind) THEN error("error_ranked", <<"exists", "bm25">>)
    ELSE \* asyncio.TimeoutError: the property filter
        IF fallback.kind = "raise"
        THEN error("error_fallback", <<"exists", "bm25", "fetch_objects">>)
        ELSE IF \E doc \in fallback.objects : FallbackAccepts(doc, filename)
        THEN [event |-> "fallback_hit", verdict |-> "found", backoff |-> 0,
              queries |-> <<"exists", "bm25", "fetch_objects">>,
              candidates |-> fallback.objects]
        ELSE [event |-> "fallback_miss", verdict |-> "miss", backoff |-> 2,
              queries |-> <<"exists", "bm25", "fetch_objects">>,
              candidates |-> fallback.objects]

NoProbe ==
    [client |-> "supplied", filename |-> "", pc |-> "idle", attempt |-> 0,
     events |-> <<>>, exists |-> "none", ranked |-> "none",
     queries |-> <<>>, candidates |-> {},
     outcome |-> "none", result |-> FALSE]

\* the call of check_document_in_weaviate_with_retry(client, fileConfig, 3)
ProbeStart(client, filename) ==
    /\ probe.pc = "idle"
    /\ probe' = [client |-> client, filename |-> filename,
                 pc |-> IF probe_max_retries > 0 THEN "attempt" ELSE "idle",
                 attempt |-> 0, events |-> <<>>, exists |-> "none", ranked |-> "none",
                 queries |-> <<>>, candidates |-> {},
                 outcome |-> IF probe_max_retries > 0 THEN "running" ELSE "returned",
                 result |-> FALSE]
    /\ UNCHANGED store

\* one attempt against the store
ProbeAttempt(exists, ranked, fallback) ==
    /\ probe.pc = "attempt"
    /\ LET a == probe_attempt(probe.filename, exists, ranked, fallback)
           last == IsLastAttempt(probe.attempt)
       IN  probe' =
             [probe EXCEPT
                !.events = Append(@, a.event),
                !.exists = exists,
                !.ranked = IF Len(a.queries) > 1 THEN ranked.kind ELSE "none",
                !.queries = a.queries,
                !.candidates = a.candidates,
                !.pc = IF a.verdict = "miss" /\ ~last
                       THEN (IF a.backoff = 1 THEN "sleep1" ELSE "sleep2")
                       ELSE "idle",
                !.outcome = CASE a.verdict = "raise" -> "raised"
                              [] a.verdict = "miss" /\ ~last -> "running"
                              [] OTHER -> "returned",
                !.result = (a.verdict = "found")]
    /\ UNCHANGED store

\* the end of "await asyncio.sleep(1)" or "await asyncio.sleep(2)": continue
\* with the next attempt of range(max_retries), or leave the loop (line 296)
ProbeSleep ==
    /\ probe.pc \in {"sleep1", "sleep2"}
    /\ probe' = [probe EXCEPT !.events = Append(@, probe.pc),
                              !.attempt = @ + 1,
                              !.pc = IF probe.attempt + 1 < probe_max_retries
                                     THEN "attempt" ELSE "idle",
                              !.outcome = IF probe.attempt + 1 < probe_max_retries
                                          THEN "running" ELSE "returned"]
    /\ UNCHANGED store

\* what fetch_objects answers when the store decides by itself which titles
\* are equal to the filter's value: it raises, or answers at most one (limit=1)
\* of the documents it holds
LooseFallbackResponses(st) ==
    {[kind |-> "raise", objects |-> {}]}
    \cup {[kind |-> "objects", objects |-> S] :
             S \in {T \in SUBSET st : Cardinality(T) <= 1}}

\* the probe against such a store
LooseNext ==
    \/ \E client \in Clients, filename \in Titles :
           ProbeStart(client, filename) /\ UNCHANGED <<batchVars, loggerVars, runVars, loopVars>>
    \/ \E exists \in ExistsResponses, ranked \in RankedResponses(store),
          fallback \in LooseFallbackResponses(store) :
           ProbeAttempt(exists, ranked, fallback) /\ UNCHANGED <<batchVars, loggerVars, runVars, loopVars>>
    \/ ProbeSleep /\ UNCHANGED <<batchVars, loggerVars, runVars, loopVars>>

ProbeNext ==
    \/ \E client \in Clients, filename \in Titles :
           ProbeStart(client, filename) /\ UNCHANGED <<batchVars, loggerVars, runVars, loopVars>>
    \/ \E exists \in ExistsResponses, ranked \in RankedResponses(store),
          fallback \in FallbackResponses(store, probe.filename) :
           ProbeAttempt(exists, ranked, fallback) /\ UNCHANGED <<batchVars, loggerVars, runVars, loopVars>>
    \/ ProbeSleep /\ UNCHANGED <<batchVars, loggerVars, runVars, loopVars>>

----------------------------------------------------------------------------
(* resilient_import_document (api.py) *)

\* what "await manager.import_document(...)" and "await client_manager.connect(...)" do
CallResults == {"ok", "raise"}

\* a reconciler that believes the importer: DONE needs a clean import too
ReportStatusTrustsImporter(document_exists, import_error) ==
    IF document_exists /\ ~import_error THEN "DONE" ELSE "ERROR"

\* line 358: "if document_exists" decides the status, whatever import_error is
ReportStatus(document_exists, import_error) ==
    IF document_exists THEN "DONE" ELSE "ERROR"

\* a reconciler whose ERROR message never quotes the importer's error
ReportMessageSynthesized(document_exists, import_error) ==
    IF document_exists THEN "completed successfully"
    ELSE "Document not found in Weaviate after import (verification failed)"

\* lines 364, 372-377: the message of the final report
ReportMessage(document_exists, import_error) ==
    IF document_exists THEN "completed successfully"
    ELSE IF import_error THEN "Import failed: import_error"
    ELSE "Document not found in Weaviate after import (verification failed)"

\* a reconciler that raises only what the importer raised
run_finishOnlyImportError(document_exists, import_error) ==
    IF ~document_exists /\ import_error
    THEN [outcome |-> "raised", error |-> "import_error"]
    ELSE [outcome |-> "returned", error |-> "none"]

\* lines 391-396 and the end of the function: what the caller gets
run_finish(document_exists, import_error) ==
    IF document_exists THEN [outcome |-> "returned", error |-> "none"]
    ELSE IF import_error THEN [outcome |-> "raised", error |-> "import_error"]
    ELSE [outcome |-> "raised", error |-> "Document not found in Weaviate after import"]

\* lines 341-347: the connection of the first probe
\* a verification that always probes with the connection it was handed
VerifyClientSupplied(credentials, connect) == "supplied"

VerifyClient(credentials, connect) ==
    IF credentials /\ connect = "ok" THEN "fresh" ELSE "supplied"

NoRun ==
    [pc |-> "idle", credentials |-> FALSE, filename |-> "", import_error |-> FALSE,
     events |-> <<>>, inTry |-> FALSE, probed |-> <<>>, probeErrored |-> FALSE,
     document_exists |-> FALSE, status |-> "none", message |-> "none",
     outcome |-> "none", error |-> "none"]

\* the call resilient_import_document(client, fileConfig, logger, credentials)
RunStart(credentials, filename) ==
    /\ run.pc = "idle"
    /\ run' = [NoRun EXCEPT !.pc = "import", !.credentials = credentials,
                            !.filename = filename, !.outcome = "running"]

\* a reconciler without the try block around the importer call
OnImportErrorPropagates == "raise"
\* lines 326-328: "except Exception as e: import_error = e"
OnImportError == "capture"

\* lines 322-329: the importer call; its failure is kept in import_error
RunImport(result) ==
    /\ run.pc = "import"
    /\ IF result = "raise" /\ OnImportError = "raise"
       THEN run' = [run EXCEPT !.pc = "idle", !.outcome = "raised",
                               !.error = "import_error", !.import_error = TRUE,
                               !.events = Append(@, "import_raise")]
       ELSE run' = [run EXCEPT !.pc = "settle",
                               !.import_error = (result = "raise"),
                               !.events = Append(@, IF result = "ok" THEN "import_ok"
                                                    ELSE "import_raise")]

\* line 336: await asyncio.sleep(2)
RunSettle ==
    /\ run.pc = "settle"
    /\ run' = [run EXCEPT !.pc = "verify", !.events = Append(@, "settle")]

\* lines 341-350: with credentials, connect afresh; the first probe is started
\* with the fresh connection, or, when there are no credentials, with the
\* supplied one; a failed connect goes to the except block, which probes with
\* the supplied connection
RunVerify(connect) ==
    /\ run.pc = "verify"
    /\ LET client == VerifyClient(run.credentials, connect)
           ev == IF ~run.credentials THEN <<>>
                 ELSE IF connect = "ok" THEN <<"connect_ok">> ELSE <<"connect_raise">>
       IN  /\ run' = [run EXCEPT !.pc = "probe",
                                 !.events = @ \o ev \o <<"probe">>,
                                 !.inTry = ~(run.credentials /\ connect = "raise"),
                                 !.probed = Append(@, client)]
           /\ ProbeStart(client, run.filename)

\* the probe's attempts all ended in a store error
ProbeUnusable(pr) ==
    /\ pr.events # <<>>
    /\ \A i \in 1..Len(pr.events) :
          pr.events[i] \in {"error_exists", "error_ranked", "error_fallback", "sleep2"}

\* lines 344-356: the probe has ended; its answer is document_exists; an error
\* out of the first probe starts the probe of the except block, an error out of
\* that one gives False
RunAfterProbe ==
    /\ run.pc = "probe"
    /\ probe.pc = "idle"
    /\ IF probe.outcome = "raised" /\ run.inTry
       THEN /\ run' = [run EXCEPT !.inTry = FALSE, !.probed = Append(@, "supplied"),
                                  !.events = Append(@, "probe")]
            /\ probe' = [NoProbe EXCEPT !.filename = run.filename, !.pc = "attempt",
                                        !.outcome = "running"]
       ELSE /\ run' = [run EXCEPT !.pc = "decide",
                                  !.probeErrored = ProbeUnusable(probe),
                                  !.document_exists =
                                      IF probe.outcome = "raised" THEN FALSE
                                      ELSE probe.result]
            /\ probe' = NoProbe
    /\ UNCHANGED store

\* lines 358-389: the final report is handed to logger.send_report
RunReport ==
    /\ run.pc = "decide"
    /\ LET status == ReportStatus(run.document_exists, run.import_error)
       IN  /\ SendReport(status)
           /\ run' = [run EXCEPT !.pc = "report",
                                 !.status = status,
                                 !.message = ReportMessage(run.document_exists, run.import_error),
                                 !.events = Append(@, "report")]

\* lines 369-370, 388-396: send_report has ended, by a return or by an error
\* that the except block swallows; the function returns or raises
RunFinish ==
    /\ run.pc = "report"
    /\ rep.pc = "idle"
    /\ LET f == run_finish(run.document_exists, run.import_error)
       IN  run' = [run EXCEPT !.pc = "idle", !.outcome = f.outcome, !.error = f.error,
                              !.events = Append(@, "finish")]

\* the reconciliation has ended, by a return or by an error
RunEnded == run.pc = "idle" /\ run.outcome \in {"returned", "raised"}

RunNext ==
    \/ \E credentials \in BOOLEAN :
           RunStart(credentials, "A.pdf")
           /\ UNCHANGED <<batchVars, loggerVars, probeVars, loopVars>>
    \/ \E result \in CallResults :
           RunImport(result) /\ UNCHANGED <<batchVars, loggerVars, probeVars, loopVars>>
    \/ RunSettle /\ UNCHANGED <<batchVars, loggerVars, probeVars, loopVars>>
    \/ \E connect \in CallResults :
           RunVerify(connect) /\ UNCHANGED <<batchVars, loggerVars, loopVars>>
    \/ \E exists \in ExistsResponses, ranked \in RankedResponses(store),
          fallback \in FallbackResponses(store, probe.filename) :
           ProbeAttempt(exists, ranked, fallback)
           /\ UNCHANGED <<batchVars, loggerVars, runVars, loopVars>>
    \/ ProbeSleep /\ UNCHANGED <<batchVars, loggerVars, runVars, loopVars>>
    \/ RunAfterProbe /\ UNCHANGED <<batchVars, loggerVars, loopVars>>
    \/ RunReport /\ UNCHANGED <<batchVars, probeVars, loopVars>>
    \/ \E result \in SendResults :
           TrySend(result) /\ UNCHANGED <<batchVars, probeVars, runVars, loopVars>>
    \/ Sleep /\ UNCHANGED <<batchVars, probeVars, runVars, loopVars>>
    \/ RunFinish /\ UNCHANGED <<batchVars, loggerVars, probeVars, loopVars>>

----------------------------------------------------------------------------
(* websocket_import_files (api.py) *)

\* the deployment mode read at line 437
Productions == {"Local", "Demo"}

\* an endpoint that serves every deployment mode
RefusedNever(mode) == FALSE

\* lines 437-438: 'if production == "Demo": return', before accept
Refused(mode) == mode = "Demo"

\* a handler that learns of the closed connection wherever it is
DisconnectSeenAnywhere(pc) == pc \in {"receive", "connect", "run", "report"}

\* lines 455, 485-487: WebSocketDisconnect comes out of receive_text only
DisconnectSeenAt(pc) == pc = "receive"

\* the store of the handler's runs: it answers the ranked query, or the
\* collection test raises
LoopExistsResponses == {"yes", "raise"}
LoopRankedResponses(st) == {r \in RankedResponses(st) : r.kind = "objects"}

\* the messages of the handler's client: uploads sent as one fragment
LoopPayloads == {p \in Payloads : p.total = 1 /\ p.order = 0}

NoLoop ==
    [pc |-> "none", production |-> "Local", connected |-> FALSE,
     closedInRun |-> FALSE, uploads |-> 0, callsBefore |-> 0,
     message |-> "none", last |-> "none"]

\* lines 437-447: the handler starts; in Demo mode it returns at once, and so it
\* does when accept fails; else it makes its own LoggerManager and BatchManager
LoopOpen(production, accept) ==
    /\ UNCHANGED conn
    /\ loop.pc = "none"
    /\ IF Refused(production) \/ accept = "raise"
       THEN /\ loop' = [loop EXCEPT !.pc = "ended", !.production = production,
                                   !.last = IF Refused(production) THEN "demo"
                                            ELSE "accept_failed"]
            /\ UNCHANGED <<batchVars, loggerVars>>
       ELSE /\ loop' = [loop EXCEPT !.pc = "receive", !.production = production,
                                   !.connected = TRUE, !.last = "accepted"]
            /\ batches' = [f \in FileIDs |-> NoSession]
            /\ socket' = TRUE
            /\ websocket_failed' = FALSE
            /\ error_logged' = FALSE
            /\ UNCHANGED <<call, rep, ncalls>>

\* the client closes the connection, at any moment
ClientDisconnect ==
    /\ UNCHANGED conn
    /\ loop.pc \in {"receive", "connect", "run", "report"}
    /\ loop.connected
    /\ loop' = [loop EXCEPT !.connected = FALSE,
                            !.closedInRun = (loop.pc = "run" /\ run.outcome = "running")]

\* lines 455-460: one message is received and handed to add_batch; a completed
\* upload takes the handler to line 464, anything else back to receive_text
LoopReceive(p) ==
    /\ UNCHANGED conn
    /\ loop.pc = "receive"
    /\ loop.connected
    /\ loop.uploads < MaxUploads
    /\ ncalls + 2 <= MaxCalls
    /\ AddBatch(p)
    /\ loop' = [loop EXCEPT !.pc = IF call'.outcome = "return" /\ call'.ret # None
                                   THEN "connect" ELSE "receive",
                            !.last = "message"]

\* lines 455-456, 488-503: a message that is no DataBatchPayload is skipped
LoopReceiveInvalid ==
    /\ UNCHANGED conn
    /\ loop.pc = "receive"
    /\ loop.connected
    /\ loop' = [loop EXCEPT !.last = "invalid"]

\* lines 485-487 and the finally block: the closed connection ends the loop
LoopDisconnectSeen ==
    /\ UNCHANGED conn
    /\ DisconnectSeenAt(loop.pc)
    /\ ~loop.connected
    /\ loop' = [loop EXCEPT !.pc = "ended", !.last = "disconnect"]

\* lines 464-469: the connection to the store is made and the reconciliation is
\* called, awaited in the loop itself; a failed connect is skipped (line 503)
LoopConnect(connect, credentials) ==
    /\ UNCHANGED conn
    /\ loop.pc = "connect"
    /\ IF connect = "raise"
       THEN /\ loop' = [loop EXCEPT !.pc = "receive", !.last = "connect_failed"]
            /\ UNCHANGED run
       ELSE /\ loop' = [loop EXCEPT !.pc = "run", !.last = "run", !.uploads = @ + 1,
                                    !.callsBefore = ncalls, !.message = "none"]
            /\ RunStart(credentials, "A.pdf")

\* a handler that lets the reconciliation's error end its loop
OnRunErrorBreaks == "break"
\* a handler that swallows the reconciliation's error without a report
OnRunErrorSilent == "continue"
\* lines 471-483: the reconciliation's error is caught, an ERROR report is sent
\* and the loop goes on
OnRunError == "report"

\* lines 470-483: the reconciliation has ended; when it raised, the loop sends
\* an ERROR report of its own
LoopAfterRun ==
    /\ UNCHANGED conn
    /\ loop.pc = "run"
    /\ RunEnded
    /\ IF run.outcome = "raised" /\ OnRunError = "report"
       THEN /\ loop' = [loop EXCEPT !.pc = "report", !.last = "run_raised",
                                    !.message = "Resilient import failed: error"]
            /\ SendReport("ERROR")
       ELSE /\ loop' = [loop EXCEPT !.pc = IF run.outcome = "raised" /\ OnRunError = "break"
                                           THEN "ended" ELSE "receive",
                                    !.last = IF run.outcome = "raised" THEN "run_raised"
                                             ELSE "run_returned"]
            /\ UNCHANGED loggerVars

\* lines 482-483, 453: the loop's report has ended; back to receive_text
LoopAfterReport ==
    /\ UNCHANGED conn
    /\ loop.pc = "report"
    /\ rep.pc = "idle"
    /\ loop' = [loop EXCEPT !.pc = "receive", !.last = "reported"]

LoopNext ==
    \/ \E production \in Productions, accept \in CallResults :
           LoopOpen(production, accept) /\ UNCHANGED <<probeVars, runVars>>
    \/ ClientDisconnect /\ UNCHANGED <<batchVars, loggerVars, probeVars, runVars>>
    \/ \E p \in LoopPayloads : LoopReceive(p) /\ UNCHANGED <<loggerVars, probeVars, runVars>>
    \/ LoopReceiveInvalid /\ UNCHANGED <<batchVars, loggerVars, probeVars, runVars>>
    \/ LoopDisconnectSeen /\ UNCHANGED <<batchVars, loggerVars, probeVars, runVars>>
    \/ \E connect \in CallResults, credentials \in BOOLEAN :
           LoopConnect(connect, credentials) /\ UNCHANGED <<batchVars, loggerVars, probeVars>>
    \/ \E result \in CallResults :
           /\ loop.pc = "run"
           /\ RunImport(result)
           /\ UNCHANGED <<batchVars, loggerVars, probeVars, loopVars>>
    \/ loop.pc = "run" /\ RunSettle
       /\ UNCHANGED <<batchVars, loggerVars, probeVars, loopVars>>
    \/ \E connect \in CallResults :
           /\ loop.pc = "run"
           /\ RunVerify(connect)
           /\ UNCHANGED <<batchVars, loggerVars, loopVars>>
    \/ \E exists \in LoopExistsResponses, ranked \in LoopRankedResponses(store) :
           /\ loop.pc = "run"
           /\ ProbeAttempt(exists, ranked, [kind |-> "objects", objects |-> {}])
           /\ UNCHANGED <<batchVars, loggerVars, runVars, loopVars>>
    \/ loop.pc = "run" /\ ProbeSleep
       /\ UNCHANGED <<batchVars, loggerVars, runVars, loopVars>>
    \/ loop.pc = "run" /\ RunAfterProbe /\ UNCHANGED <<batchVars, loggerVars, loopVars>>
    \/ loop.pc = "run" /\ RunReport /\ UNCHANGED <<batchVars, probeVars, loopVars>>
    \/ loop.pc = "run" /\ RunFinish
       /\ UNCHANGED <<batchVars, loggerVars, probeVars, loopVars>>
    \/ \E result \in SendResults :
           /\ loop.pc \in {"run", "report"}
           /\ result = "ok" => loop.connected
           /\ TrySend(result)
           /\ UNCHANGED <<batchVars, probeVars, runVars, loopVars>>
    \/ loop.pc \in {"run", "report"} /\ Sleep
       /\ UNCHANGED <<batchVars, probeVars, runVars, loopVars>>
    \/ LoopAfterRun /\ UNCHANGED <<batchVars, probeVars, runVars>>
    \/ LoopAfterReport /\ UNCHANGED <<batchVars, loggerVars, probeVars, runVars>>

----------------------------------------------------------------------------
(* the first upload of a connection, with the importer's progress reports *)

\* messages that complete an upload whose text parses
UploadPayloads == {p \in LoopPayloads : ValidDoc(p.chunk)}

\* manager.import_document is handed the logger (api.py:324) and reports its
\* progress with it: one send_report call with a non-terminal status
ImporterReport ==
    /\ run.pc = "import"
    /\ ncalls + 2 < MaxCalls
    /\ SendReport("PROCESSING")
    /\ run' = [run EXCEPT !.events = Append(@, "progress")]

\* the steps that end by themselves: every await of the handler but receive_text
UploadProgress ==
    \/ \E connect \in CallResults :
           LoopConnect(connect, TRUE) /\ UNCHANGED <<batchVars, loggerVars, probeVars>>
    \/ \E result \in CallResults :
           /\ loop.pc = "run" /\ rep.pc = "idle"
           /\ RunImport(result)
           /\ UNCHANGED <<batchVars, loggerVars, probeVars, loopVars>>
    \/ loop.pc = "run" /\ RunSettle
       /\ UNCHANGED <<batchVars, loggerVars, probeVars, loopVars>>
    \/ \E connect \in CallResults :
           /\ loop.pc = "run"
           /\ RunVerify(connect)
           /\ UNCHANGED <<batchVars, loggerVars, loopVars>>
    \/ \E exists \in LoopExistsResponses, ranked \in LoopRankedResponses(store) :
           /\ loop.pc = "run"
           /\ ProbeAttempt(exists, ranked, [kind |-> "objects", objects |-> {}])
           /\ UNCHANGED <<batchVars, loggerVars, runVars, loopVars>>
    \/ loop.pc = "run" /\ ProbeSleep
       /\ UNCHANGED <<batchVars, loggerVars, runVars, loopVars>>
    \/ loop.pc = "run" /\ RunAfterProbe /\ UNCHANGED <<batchVars, loggerVars, loopVars>>
    \/ loop.pc = "run" /\ RunReport /\ UNCHANGED <<batchVars, probeVars, loopVars>>
    \/ loop.pc = "run" /\ RunFinish
       /\ UNCHANGED <<batchVars, loggerVars, probeVars, loopVars>>
    \/ \E result \in SendResults :
           /\ loop.pc \in {"run", "report"}
           /\ TrySend(result)
           /\ UNCHANGED <<batchVars, probeVars, runVars, loopVars>>
    \/ loop.pc \in {"run", "report"} /\ Sleep
       /\ UNCHANGED <<batchVars, probeVars, runVars, loopVars>>
    \/ LoopAfterRun /\ UNCHANGED <<batchVars, probeVars, runVars>>
    \/ LoopAfterReport /\ UNCHANGED <<batchVars, loggerVars, probeVars, runVars>>

UploadNext ==
    \/ \E p \in UploadPayloads :
           /\ loop.uploads = 0
           /\ LoopReceive(p)
           /\ UNCHANGED <<loggerVars, probeVars, runVars>>
    \/ loop.pc = "run" /\ ImporterReport /\ UNCHANGED <<batchVars, probeVars, loopVars>>
    \/ UploadProgress

----------------------------------------------------------------------------
(* Two connections to /ws/import_files side by side (api.py:441-444) *)

\* the upload ids the reports of one connection are about
ReportIDs == {"f1", "f2"}
\* the fragments this connection receives: the heads of two-fragment uploads
HeadPayloads ==
    {p \in Payloads : p.total = 2 /\ p.order = 0 /\ p.chunk = <<"H">>}
\* the fragments the other connection receives: the tails, under the same id
TailPayloads ==
    {p \in Payloads : p.total = 2 /\ p.order = 1 /\ p.chunk = <<"T">>}

\* one BatchManager of the module, used by every connection
BatcherOfShared(connection) == "this"

\* lines 443-444: the handler makes its LoggerManager and its BatchManager
\* itself, after accept: the managers a connection uses are its own
BatcherOf(connection) == connection

\* lines 455-457 on this connection
ConnAddBatch(p) ==
    /\ AddBatch(p)
    /\ UNCHANGED conn

\* lines 455-457 on the other connection: add_batch of the BatchManager that
\* connection uses
PeerAddBatch(p) ==
    LET own == BatcherOf("peer") = "peer"
        r == add_batch(IF own THEN conn.peerBatches ELSE batches, p)
    IN  /\ conn' = [conn EXCEPT !.peerCall = r.call,
                                !.peerBatches = IF own THEN r.batches ELSE @]
        /\ batches' = IF own THEN batches ELSE r.batches
        /\ UNCHANGED call

\* logger.send_report(file_Id, status, ...) on this connection's LoggerManager
ConnSendReport(file_Id, status) ==
    /\ SendReport(status)
    /\ conn' = [conn EXCEPT !.file_Id = file_Id,
                            !.failedBy = IF websocket_failed' THEN @ ELSE "none"]

\* one send attempt of that report; failedBy keeps the upload whose report
\* drove the reporter to its failed state
ConnTrySend(result) ==
    /\ TrySend(result)
    /\ conn' = [conn EXCEPT !.failedBy = IF websocket_failed' /\ ~websocket_failed
                                         THEN conn.file_Id ELSE @]

ConnSleep ==
    /\ Sleep
    /\ UNCHANGED conn

ConnNext ==
    \/ \E p \in HeadPayloads :
           ConnAddBatch(p) /\ UNCHANGED <<loggerVars, probeVars, runVars, loop>>
    \/ \E p \in TailPayloads :
           PeerAddBatch(p) /\ UNCHANGED <<loggerVars, probeVars, runVars, loop>>
    \/ \E file_Id \in ReportIDs, status \in Statuses :
           ConnSendReport(file_Id, status) /\ UNCHANGED <<batchVars, probeVars, runVars, loop>>
    \/ \E result \in SendResults :
           ConnTrySend(result) /\ UNCHANGED <<batchVars, probeVars, runVars, loop>>
    \/ ConnSleep /\ UNCHANGED <<batchVars, probeVars, runVars, loop>>

----------------------------------------------------------------------------
(* One reconciliation whose collaborator calls all end *)

\* the steps of a reconciliation that end by themselves: each await of
\* resilient_import_document, of the probe and of the reporter returns or raises
TermProgress ==
    \/ \E result \in CallResults :
           RunImport(result) /\ UNCHANGED <<batchVars, loggerVars, probeVars, loopVars>>
    \/ RunSettle /\ UNCHANGED <<batchVars, loggerVars, probeVars, loopVars>>
    \/ \E connect \in CallResults :
           RunVerify(connect) /\ UNCHANGED <<batchVars, loggerVars, loopVars>>
    \/ \E exists \in ExistsResponses, ranked \in RankedResponses(store),
          fallback \in FallbackResponses(store, probe.filename) :
           ProbeAttempt(exists, ranked, fallback)
           /\ UNCHANGED <<batchVars, loggerVars, runVars, loopVars>>
    \/ ProbeSleep /\ UNCHANGED <<batchVars, loggerVars, runVars, loopVars>>
    \/ RunAfterProbe /\ UNCHANGED <<batchVars, loggerVars, loopVars>>
    \/ RunReport /\ UNCHANGED <<batchVars, probeVars, loopVars>>
    \/ \E result \in SendResults :
           TrySend(result) /\ UNCHANGED <<batchVars, probeVars, runVars, loopVars>>
    \/ Sleep /\ UNCHANGED <<batchVars, probeVars, runVars, loopVars>>
    \/ RunFinish /\ UNCHANGED <<batchVars, loggerVars, probeVars, loopVars>>

TermNext ==
    \/ \E credentials \in BOOLEAN :
           /\ ncalls < MaxCalls
           /\ RunStart(credentials, "A.pdf")
           /\ UNCHANGED <<batchVars, loggerVars, probeVars, loopVars>>
    \/ TermProgress

----------------------------------------------------------------------------
(* Specifications *)

\* the fragment assembler alone: one BatchManager fed arbitrary fragments; the
\* reporter is the one websocket_import_files builds and is never called
InitBatch ==
    /\ batches = [f \in FileIDs |-> NoSession]
    /\ call = NoCall
    /\ socket = TRUE
    /\ websocket_failed = FALSE
    /\ error_logged = FALSE
    /\ rep = NoRep
    /\ ncalls = 0
    /\ store = {}
    /\ probe = NoProbe
    /\ run = NoRun
    /\ loop = NoLoop
    /\ conn = NoConn

SpecBatch == InitBatch /\ [][BatchNext]_vars

\* one BatchManager that holds the sessions of two upload ids
InitFrame ==
    /\ batches = [f \in FrameIDs |-> NoSession]
    /\ call = NoCall
    /\ socket = TRUE
    /\ websocket_failed = FALSE
    /\ error_logged = FALSE
    /\ rep = NoRep
    /\ ncalls = 0
    /\ store = {}
    /\ probe = NoProbe
    /\ run = NoRun
    /\ loop = NoLoop
    /\ conn = NoConn

SpecFrame == InitFrame /\ [][FrameNext]_vars

\* the reporter alone: one LoggerManager, built with or without a socket,
\* serving one call at a time; no fragment arrives
InitLogger ==
    /\ batches = [f \in FileIDs |-> NoSession]
    /\ call = NoCall
    /\ socket \in BOOLEAN
    /\ websocket_failed = FALSE
    /\ error_logged = FALSE
    /\ rep = NoRep
    /\ ncalls = 0
    /\ store = {}
    /\ probe = NoProbe
    /\ run = NoRun
    /\ loop = NoLoop
    /\ conn = NoConn

SpecLogger == InitLogger /\ [][LoggerNext]_vars

\* the probe alone: a store holding any of the titles, probed for any title
InitProbe ==
    /\ batches = [f \in FileIDs |-> NoSession]
    /\ call = NoCall
    /\ socket = TRUE
    /\ websocket_failed = FALSE
    /\ error_logged = FALSE
    /\ rep = NoRep
    /\ ncalls = 0
    /\ store \in SUBSET Titles
    /\ probe = NoProbe
    /\ run = NoRun
    /\ loop = NoLoop
    /\ conn = NoConn

SpecProbe == InitProbe /\ [][ProbeNext]_vars

\* the probe alone, against a store whose equality filter is its own affair
InitLoose ==
    /\ batches = [f \in FileIDs |-> NoSession]
    /\ call = NoCall
    /\ socket = TRUE
    /\ websocket_failed = FALSE
    /\ error_logged = FALSE
    /\ rep = NoRep
    /\ ncalls = 0
    /\ store \in SUBSET Titles
    /\ probe = NoProbe
    /\ run = NoRun
    /\ loop = NoLoop
    /\ conn = NoConn

SpecLoose == InitLoose /\ [][LooseNext]_vars

\* one reconciliation after the other on one reporter with a socket, for a
\* document named "A.pdf" and a store that holds it or not, beside a close title
InitRun ==
    /\ batches = [f \in FileIDs |-> NoSession]
    /\ call = NoCall
    /\ socket = TRUE
    /\ websocket_failed = FALSE
    /\ error_logged = FALSE
    /\ rep = NoRep
    /\ ncalls = 0
    /\ store \in {{"AA.pdf"}, {"A.pdf", "AA.pdf"}}
    /\ probe = NoProbe
    /\ run = NoRun
    /\ loop = NoLoop
    /\ conn = NoConn

SpecRun == InitRun /\ [][RunNext]_vars

\* reconciliations on one reporter whose every await ends
InitTerm ==
    /\ batches = [f \in FileIDs |-> NoSession]
    /\ call = NoCall
    /\ socket = TRUE
    /\ websocket_failed = FALSE
    /\ error_logged = FALSE
    /\ rep = NoRep
    /\ ncalls = 0
    /\ store \in {{"AA.pdf"}, {"A.pdf", "AA.pdf"}}
    /\ probe = NoProbe
    /\ run = NoRun
    /\ loop = NoLoop
    /\ conn = NoConn

SpecTerm == InitTerm /\ [][TermNext]_vars /\ WF_vars(TermProgress)

\* one connection to /ws/import_files, from the call of the handler on
InitLoop ==
    /\ batches = [f \in FileIDs |-> NoSession]
    /\ call = NoCall
    /\ socket = FALSE
    /\ websocket_failed = FALSE
    /\ error_logged = FALSE
    /\ rep = NoRep
    /\ ncalls = 0
    /\ store \in {{"AA.pdf"}, {"A.pdf", "AA.pdf"}}
    /\ probe = NoProbe
    /\ run = NoRun
    /\ loop = NoLoop
    /\ conn = NoConn

SpecLoop == InitLoop /\ [][LoopNext]_vars

\* an accepted connection with its new LoggerManager and BatchManager, at its
\* first receive_text; every await but receive_text ends
InitUpload ==
    /\ batches = [f \in FileIDs |-> NoSession]
    /\ call = NoCall
    /\ socket = TRUE
    /\ websocket_failed = FALSE
    /\ error_logged = FALSE
    /\ rep = NoRep
    /\ ncalls = 0
    /\ store \in {{"AA.pdf"}, {"A.pdf", "AA.pdf"}}
    /\ probe = NoProbe
    /\ run = NoRun
    /\ loop = [NoLoop EXCEPT !.pc = "receive", !.connected = TRUE, !.last = "accepted"]
    /\ conn = NoConn

SpecUpload == InitUpload /\ [][UploadNext]_vars /\ WF_vars(UploadProgress)

\* two accepted connections, each at its receive_text: this one with its
\* BatchManager and LoggerManager, and the BatchManager of the other one
InitConn ==
    /\ batches = [f \in FileIDs |-> NoSession]
    /\ call = NoCall
    /\ socket = TRUE
    /\ websocket_failed = FALSE
    /\ error_logged = FALSE
    /\ rep = NoRep
    /\ ncalls = 0
    /\ store = {}
    /\ probe = NoProbe
    /\ run = NoRun
    /\ loop = NoLoop
    /\ conn = NoConn

SpecConn == InitConn /\ [][ConnNext]_vars

----------------------------------------------------------------------------
(* Claims about BatchManager, checked under SpecBatch *)

\* the values of dict d taken in ascending order of the keys in `keys`
RECURSIVE AscendingJoin(_, _)
AscendingJoin(d, keys) ==
    IF keys = {} THEN <<>>
    ELSE LET k == CHOOSE x \in keys : \A y \in keys : x <= y
         IN  DictGet(d, k) \o AscendingJoin(d, keys \ {k})

\* the orderings of a finite set of keys
Orderings(keys) ==
    {o \in [1..Cardinality(keys) -> keys] :
        \A i, j \in 1..Cardinality(keys) : i # j => o[i] # o[j]}

\* the texts m[o[1]], m[o[2]], ... one after the other
RECURSIVE JoinBy(_, _)
JoinBy(m, o) == IF o = <<>> THEN <<>> ELSE m[o[1]] \o JoinBy(m, Tail(o))

\* an add_batch call has been made
Called == call.outcome # "none"

\* a completion signal fired in the last call: the count of distinct indices
\* equals the session's total, or the fragment carries isLastChunk
CompletionSignal == Called /\ (Len(call.chunks) = call.total \/ call.isLastChunk)

\* C1: whatever the arrival order of the fragments, the payload assembled on
\* completion is the concatenation of the recorded fragments in ascending index
\* order.
C1_AssembledInAscendingOrder ==
    call.assembled => call.data = AscendingJoin(call.chunks, DictKeys(call.chunks))

C3_SessionRemovedOnCompletion ==
    CompletionSignal => ~batches[call.fileID].present

\* the index -> text map after recording text v at index k over the dict `old`
Latest(old, k, v) ==
    [j \in DictKeys(old) \cup {k} |-> IF j = k THEN v ELSE DictGet(old, j)]

\* C4: recording a fragment at an index the session already holds overwrites the
\* value there and does not change the count of distinct indices that the
\* completion test reads; every other index keeps its value; the payload
\* assembled is made of exactly one text per index, the latest one.
C4_LastWriteWins ==
    [][(call'.outcome # "none") =>
        LET f == call'.fileID
            old == IF batches[f].present THEN batches[f].chunks ELSE <<>>
            m == Latest(old, call'.order, call'.chunk)
        IN  /\ call'.overwrote <=> (batches[f].present /\ call'.order \in DictKeys(old))
            /\ call'.overwrote => Len(call'.chunks) = Len(old)
            /\ Len(call'.chunks) = Cardinality(DOMAIN m)
            /\ DictKeys(call'.chunks) = DOMAIN m
            /\ \A k \in DOMAIN m : DictGet(call'.chunks, k) = m[k]
            /\ call'.assembled =>
                   \E o \in Orderings(DOMAIN m) : call'.data = JoinBy(m, o)
      ]_vars

\* C4's case: an index is overwritten and the payload is assembled in that call
C4_Witness ==
    /\ call.overwrote /\ call.assembled
    /\ call.ret = FileConfig(<<"H", "T">>)

\* C5 as stated: when completion fires and the concatenation does not parse,
\* add_batch fails with the parse error.
C5_ParseFailureRaises ==
    (call.assembled /\ ~ValidDoc(call.data)) => call.outcome = "raise"

\* C5 as amended: when completion fires and the concatenation does not parse,
\* add_batch does not fail: it returns nothing, the result it also gives when no
\* completion signal fired.
C5_ParseFailureReturnsNothing ==
    (call.assembled /\ ~ValidDoc(call.data)) =>
        (call.outcome = "return" /\ call.ret = None)

\* C5's case: the count reached the total and the concatenation does not parse
C5_Witness ==
    call.assembled /\ ~ValidDoc(call.data) /\ Len(call.chunks) = call.total

\* C20: an add_batch call for one upload id changes the session of no other
\* id: whether the other id is in the table, its declared total and its chunks
\* are as before, also when the call completes its own upload and the parse of
\* the assembled text fails; such a failure removes no other session.
C20_OtherSessionsUntouched ==
    [][\A y \in FrameIDs : y # call'.fileID => batches'[y] = batches[y]]_vars

C20_Witness ==
    /\ call.fileID = "f1"
    /\ call.assembled
    /\ ~ValidDoc(call.data)
    /\ call.ret = None
    /\ batches["f2"].present
    /\ batches["f2"].chunks # <<>>
    /\ batches["f2"].total = 2

\* C23: when add_batch has recorded a fragment and no completion signal fired
\* (the count of distinct indices differs from the total and isLastChunk is not
\* set), it returns None and the session stays in the table with the fragment
\* at its index, for later fragments to complete.
C23_NoSignalKeepsSession ==
    (Called /\ ~CompletionSignal) =>
        /\ call.outcome = "return"
        /\ call.ret = None
        /\ ~call.assembled
        /\ batches[call.fileID].present
        /\ batches[call.fileID].total = call.total
        /\ batches[call.fileID].chunks = call.chunks
        /\ DictHas(batches[call.fileID].chunks, call.order)
        /\ DictGet(batches[call.fileID].chunks, call.order) = call.chunk

\* the first of two fragments has been recorded
C23_Witness ==
    /\ Called /\ ~CompletionSignal
    /\ call.total = 2
    /\ ~call.overwrote
    /\ batches[call.fileID].chunks = <<[order |-> call.order, chunk |-> call.chunk]>>

\* C31: the total of a session is the one of the fragment that created it: a
\* later fragment of the session leaves it as it is, whatever total it carries,
\* and the completion test compares the count of distinct indices with that
\* stored total.
C31_TotalFixedByFirstFragment ==
    [][Called' =>
          LET f == call'.fileID IN
          /\ batches[f].present => call'.total = batches[f].total
          /\ ~batches[f].present => call'.total = call'.declared
          /\ batches'[f].present => batches'[f].total = call'.total
          /\ call'.assembled <=> Len(call'.chunks) = call'.total]_vars

\* a session made with total 2 is completed by a fragment that says total 1
C31_Witness ==
    /\ Called
    /\ call.total = 2
    /\ call.declared = 1
    /\ call.assembled
    /\ call.ret # None

\* C32: completion by count needs the count of distinct indices to equal the
\* total exactly. A fragment that adds a new index to a session whose count has
\* already reached or passed its total, or whose total is not positive, yields
\* nothing: nothing is assembled and add_batch returns None.
C32_ExactCountOnly ==
    [][Called' =>
          LET f == call'.fileID
              before == IF batches[f].present THEN Len(batches[f].chunks) ELSE 0
          IN
          /\ call'.assembled <=> Len(call'.chunks) = call'.total
          /\ (~call'.overwrote /\ (before >= call'.total \/ call'.total <= 0))
                 => (~call'.assembled /\ call'.ret = None)]_vars

\* a fragment has added a new index to a session whose count had reached its total
C32_Witness ==
    /\ Called
    /\ ~call.overwrote
    /\ call.total >= 1
    /\ Len(call.chunks) > call.total
    /\ call.ret = None

\* a fragment has been recorded in a session whose total is not positive
C32_WitnessNoTotal ==
    /\ Called
    /\ call.total <= 0
    /\ Len(call.chunks) >= 1
    /\ call.ret = None

\* the last call assembled a payload that did not parse
ParseFailed == Called /\ call.assembled /\ ~ValidDoc(call.data)

\* every session of the table has a fragment and a count other than its total
RetainedIncomplete ==
    \A f \in FileIDs :
        batches[f].present =>
            /\ Len(batches[f].chunks) >= 1
            /\ Len(batches[f].chunks) # batches[f].total

\* C33: as long as every payload that reaches completion parses, every session
\* kept in the table has at least one recorded fragment and a count of distinct
\* indices different from its stored total.
C33_RetainedSessionsIncomplete ==
    ([]~ParseFailed) => []RetainedIncomplete

\* a completed payload has parsed and a later fragment has opened a session
\* that stays in the table
C33_Witness ==
    /\ Called
    /\ ~call.assembled
    /\ ~call.overwrote
    /\ Len(call.chunks) = 1
    /\ batches[call.fileID].present
    /\ batches[call.fileID].total = 2

----------------------------------------------------------------------------
(* Claims about LoggerManager, checked under SpecLogger *)

TerminalPhases == {"DONE", "ERROR"}

\* the positions of the send_json attempts among a call's events
Attempts(ev) == {i \in 1..Len(ev) : ev[i] # "sleep"}

\* attempts and pauses alternate, starting with an attempt
WellPaced(ev) == \A i \in 1..Len(ev) : (ev[i] = "sleep") <=> (i % 2 = 0)

\* the rules of one retry cycle whose attempts are in rep.events
CycleRules ==
    LET ev == rep.events IN
    /\ Cardinality(Attempts(ev)) <= 3
    /\ WellPaced(ev)
    /\ rep.outcome \in {"running", "returned"}
    /\ \A i \in 1..Len(ev) :
           ev[i] \in {"ok", "permanent"} => (i = Len(ev) /\ rep.outcome = "returned")
    /\ rep.outcome = "running" => ~websocket_failed
    /\ rep.outcome = "returned" =>
           /\ ev[Len(ev)] # "sleep"
           /\ websocket_failed <=>
                  \/ ev[Len(ev)] = "permanent"
                  \/ ev[Len(ev)] = "transient" /\ Cardinality(Attempts(ev)) = 3

\* C6: send_report never raises to its caller, whatever the status, the health
\* at entry and the behaviour of the socket; a call changes nothing but the
\* reporter's own health state.
C6_SendReportNeverRaises ==
    [][rep'.op = "send_report" =>
          /\ rep'.outcome \in {"running", "returned"}
          /\ socket' = socket /\ batches' = batches /\ call' = call
      ]_vars

\* C6's case: every attempt of a report failed and the call returned
C6_Witness ==
    /\ rep.op = "send_report" /\ rep.outcome = "returned" /\ websocket_failed
    /\ rep.events = <<"transient", "sleep", "transient", "sleep", "transient">>

\* C7: a send on a healthy reporter whose failures are not permanent ones makes
\* at most 3 attempts, a pause separates consecutive attempts and none follows
\* the last, the first success ends the cycle with the reporter healthy, and the
\* reporter becomes permanently failed only when all 3 attempts failed.
C7_TransientRetryCycle ==
    LET ev == rep.events IN
    (rep.op = "send_report" /\ ev # <<>> /\ \A i \in 1..Len(ev) : ev[i] # "permanent") =>
        /\ Cardinality(Attempts(ev)) <= 3
        /\ WellPaced(ev)
        /\ \A i \in 1..Len(ev) :
               ev[i] = "ok" => (i = Len(ev) /\ rep.outcome = "returned" /\ ~websocket_failed)
        /\ rep.outcome = "running" => ~websocket_failed
        /\ rep.outcome = "returned" =>
               /\ ev[Len(ev)] # "sleep"
               /\ websocket_failed <=>
                      (Cardinality(Attempts(ev)) = 3 /\ \A i \in Attempts(ev) : ev[i] = "transient")

\* C7's case: two transient failures, then the third attempt succeeds
C7_Witness ==
    /\ rep.op = "send_report" /\ rep.outcome = "returned" /\ ~websocket_failed
    /\ rep.events = <<"transient", "sleep", "transient", "sleep", "ok">>

\* C8: a send attempt that fails with a permanent-signature error is the last
\* event of its report: the reporter is permanently failed at once, with no
\* further attempt and no pause, on whichever attempt the error occurs.
C8_PermanentErrorStopsCycle ==
    LET ev == rep.events IN
    rep.op = "send_report" =>
        \A i \in 1..Len(ev) :
            ev[i] = "permanent" =>
                /\ i = Len(ev)
                /\ rep.pc = "idle" /\ rep.outcome = "returned"
                /\ websocket_failed

\* C8's case: the permanent error occurs on the second attempt of the cycle
C8_Witness ==
    /\ rep.op = "send_report" /\ websocket_failed
    /\ rep.events = <<"transient", "sleep", "permanent">>

\* C9: on a permanently failed reporter a send_report whose status is neither
\* DONE nor ERROR makes no send attempt and leaves the reporter permanently
\* failed; the reporter goes from permanently failed to healthy only at the
\* entry of a send_report whose status is DONE or ERROR.
C9_OnlyTerminalReportResets ==
    /\ [](( /\ rep.op = "send_report" /\ rep.failedAtEntry
            /\ rep.status \notin TerminalPhases ) =>
              (rep.events = <<>> /\ rep.outcome = "returned" /\ websocket_failed))
    /\ [][(websocket_failed /\ ~websocket_failed') =>
              /\ rep.pc = "idle" /\ ncalls' = ncalls + 1
              /\ rep'.op = "send_report" /\ rep'.status \in TerminalPhases
          ]_vars

\* C9's case: a PROCESSING report dropped by a permanently failed reporter
C9_Witness ==
    /\ rep.op = "send_report" /\ rep.status = "PROCESSING" /\ rep.failedAtEntry
    /\ rep.events = <<>> /\ websocket_failed

\* C10: a send_report with status DONE or ERROR entered on a permanently failed
\* reporter resets the health exactly once and runs one retry cycle under the
\* rules of a healthy send (at least one attempt is made); the reporter is
\* permanently failed again if the cycle fails and healthy if it succeeds, and a
\* report entered on a healthy reporter with a socket is attempted.
C10_TerminalReportRetriesOnce ==
    /\ []( (rep.op = "send_report" /\ rep.failedAtEntry /\ rep.status \in TerminalPhases) =>
              /\ rep.resets = 1
              /\ CycleRules
              /\ rep.outcome = "returned" => rep.events # <<>> )
    /\ []( (rep.op = "send_report" /\ ~rep.failedAtEntry) => rep.resets = 0 )
    /\ [][( /\ ncalls' = ncalls + 1 /\ rep'.op = "send_report"
            /\ socket /\ ~websocket_failed ) =>
              (rep'.pc = "send" /\ rep'.outcome = "running" /\ rep'.events = <<>>)
          ]_vars

\* C10's case: an ERROR report entered on a permanently failed reporter is
\* delivered by the second attempt of its fresh cycle
C10_Witness ==
    /\ rep.op = "send_report" /\ rep.status = "ERROR" /\ rep.failedAtEntry
    /\ rep.events = <<"transient", "sleep", "ok">> /\ ~websocket_failed

\* C11 as stated: after 3 consecutive transient send failures the reporter
\* suppresses the non-terminal sends, and a later DONE or ERROR send makes
\* exactly one more transport send attempt.
C11_TerminalSendMakesOneAttempt ==
    /\ ( /\ rep.op = "send_report" /\ rep.causeAtEntry = "retries"
         /\ rep.status \notin TerminalPhases ) =>
           (rep.events = <<>> /\ rep.outcome = "returned" /\ websocket_failed)
    /\ ( /\ rep.op = "send_report" /\ rep.causeAtEntry = "retries"
         /\ rep.status \in TerminalPhases /\ rep.outcome = "returned" ) =>
           Cardinality(Attempts(rep.events)) = 1

\* C11 as amended: after 3 consecutive transient send failures the reporter
\* suppresses every non-terminal send until a DONE or ERROR send; that send
\* forces one more retry cycle, of at least one and at most 3 transport send
\* attempts: a transient failure of the first or second attempt is followed by
\* another attempt.
C11_TerminalSendForcesOneCycle ==
    /\ ( /\ rep.op = "send_report" /\ rep.causeAtEntry = "retries"
         /\ rep.status \notin TerminalPhases ) =>
           (rep.events = <<>> /\ rep.outcome = "returned" /\ websocket_failed)
    /\ ( /\ rep.op = "send_report" /\ rep.causeAtEntry = "retries"
         /\ rep.status \in TerminalPhases ) =>
           /\ rep.outcome \in {"running", "returned"}
           /\ rep.outcome = "returned" =>
                  /\ Cardinality(Attempts(rep.events)) \in 1..3
                  /\ rep.events[Len(rep.events)] = "transient" =>
                         Cardinality(Attempts(rep.events)) = 3

\* C11's case: three transient failures made the reporter permanently failed,
\* and the DONE report that follows is delivered by its second attempt
C11_Witness ==
    /\ rep.op = "send_report" /\ rep.causeAtEntry = "retries" /\ rep.status = "DONE"
    /\ rep.outcome = "returned" /\ rep.events = <<"transient", "sleep", "ok">>

\* the last call was a heartbeat or a new-document notice
OneShot == rep.op \in {"send_heartbeat", "create_new_document"}

\* C34: send_heartbeat and create_new_document make at most one send attempt
\* and never retry; a failure of that attempt, permanent or transient, leaves
\* the reporter failed; a reporter that was failed at entry stays failed and
\* sends nothing; the call returns to its caller in every case.
C34_OneShotNoRetryNoReset ==
    OneShot =>
        /\ Len(rep.events) <= 1
        /\ rep.pc = "idle"
        /\ rep.outcome = "returned"
        /\ rep.resets = 0
        /\ (rep.events # <<>> /\ rep.events[1] # "ok") => websocket_failed
        /\ rep.failedAtEntry => (websocket_failed /\ rep.events = <<>>)

\* a heartbeat's one attempt has failed on a transient error and the reporter
\* is failed
C34_Witness ==
    /\ rep.op = "send_heartbeat"
    /\ ~rep.failedAtEntry
    /\ rep.events = <<"transient">>
    /\ websocket_failed

\* the same for a new-document notice
C34_WitnessNotice ==
    /\ rep.op = "create_new_document"
    /\ ~rep.failedAtEntry
    /\ rep.events = <<"transient">>
    /\ websocket_failed

----------------------------------------------------------------------------
(* Claims about the existence probe, checked under SpecProbe *)

\* the positions of the attempts among the probe's events
ProbeAttempts == {i \in 1..Len(probe.events) : probe.events[i] \notin {"sleep1", "sleep2"}}

\* the events of an attempt that found a document
ProbeHits == {"hit", "fallback_hit"}

\* the probe has returned and its last attempt found nothing
ProbeMissedLast ==
    /\ probe.events # <<>>
    /\ probe.events[Len(probe.events)] \notin ProbeHits

\* C12: whatever the store does (the collection check, the ranked search or the
\* fallback query raising, timing out or answering), the probe never raises and
\* returns a boolean; it returns false exactly when 3 attempts have all missed.
C12_ProbeFailSoft ==
    /\ probe.outcome \in {"none", "running", "returned"}
    /\ Cardinality(ProbeAttempts) <= 3
    /\ probe.outcome = "returned" =>
           /\ probe.events # <<>>
           /\ probe.result \in BOOLEAN
           /\ probe.result <=> ~ProbeMissedLast
           /\ ~probe.result => Cardinality(ProbeAttempts) = 3
           /\ \A i \in ProbeAttempts :
                  i < Len(probe.events) => probe.events[i] \notin ProbeHits

\* C12's case: the collection check raises, then the ranked search raises, then
\* the ranked search times out and the fallback query raises
C12_Witness ==
    /\ probe.outcome = "returned" /\ probe.result = FALSE
    /\ probe.events = <<"error_exists", "sleep2", "error_ranked", "sleep2", "error_fallback">>

\* C13 as stated: the probe returns true if and only if the store holds a
\* document whose title is exactly the descriptor's name.
C13_FoundIffStored ==
    probe.outcome = "returned" => (probe.result <=> probe.filename \in store)

\* C13 as amended: the probe returns true only if a candidate of the ranked
\* search has exactly the descriptor's name as its title, or the equality query
\* made after a timeout answered with a document; with a store whose equality
\* query answers only documents of that title, true implies that the store
\* holds a document of exactly that title, and a close title alone never gives
\* true.  The probe may return false although the document is stored.
C13_FoundOnlyIfStored ==
    (probe.outcome = "returned" /\ probe.result) =>
        /\ probe.filename \in store
        /\ probe.events[Len(probe.events)] \in ProbeHits

\* C13's case: the store holds "A.pdf" and "AA.pdf"; the first ranked answer
\* has only the close title, the second has the exact one
C13_Witness ==
    /\ {"A.pdf", "AA.pdf"} \subseteq store /\ probe.filename = "A.pdf"
    /\ probe.outcome = "returned" /\ probe.result
    /\ probe.events = <<"close", "sleep2", "hit">>

----------------------------------------------------------------------------
(* Claims about resilient_import_document *)

\* how many times the reconciliation handed its final report to the reporter
RunReports == Cardinality({i \in 1..Len(run.events) : run.events[i] = "report"})

\* C14: whenever the probe finds the document the reported status is DONE and
\* the reconciliation returns without an error, whether the importer raised or
\* not; the reported status is DONE exactly when the probe's answer is "found".
C14_FoundMeansDone ==
    /\ [](/\ run.status # "none" => (run.status = "DONE" <=> run.document_exists)
          /\ RunEnded /\ run.document_exists =>
                 /\ run.status = "DONE"
                 /\ run.outcome = "returned"
                 /\ run.error = "none")
    /\ [][run.pc = "probe" /\ run'.pc = "decide" =>
              (run'.document_exists <=> (probe.outcome = "returned" /\ probe.result))]_vars

C14_Witness ==
    /\ RunEnded
    /\ run.import_error
    /\ run.document_exists
    /\ run.status = "DONE"
    /\ run.outcome = "returned"

\* C15: whenever the probe does not find the document the reported status is
\* ERROR and the reconciliation raises: after an importer error the message
\* carries that error and the same error is raised, after a clean import the
\* message is the synthesized "not found after import" text and a new error is
\* raised.
C15_NotFoundMeansError ==
    /\ run.status # "none" /\ ~run.document_exists =>
           /\ run.status = "ERROR"
           /\ run.import_error => run.message = "Import failed: import_error"
           /\ ~run.import_error =>
                  run.message = "Document not found in Weaviate after import (verification failed)"
    /\ RunEnded /\ ~run.document_exists =>
           /\ run.status = "ERROR"
           /\ run.outcome = "raised"
           /\ run.import_error => run.error = "import_error"
           /\ ~run.import_error =>
                  run.error = "Document not found in Weaviate after import"

C15_Witness ==
    /\ RunEnded
    /\ run.import_error
    /\ ~run.document_exists
    /\ run.message = "Import failed: import_error"
    /\ run.error = "import_error"

\* C16: every reconciliation hands its final status to send_report exactly
\* once, before it returns or raises, and every send_report call is that one;
\* a report that could not be delivered changes nothing of the end: ERROR is
\* still raised, DONE still returns.
C16_ReportsOnceThenPropagates ==
    /\ [](/\ RunReports <= 1
          /\ run.pc = "report" => RunReports = 1
          /\ RunEnded =>
                 /\ RunReports = 1
                 /\ run.events[Len(run.events)] = "finish"
                 /\ run.events[Len(run.events) - 1] = "report"
                 /\ rep.op = "send_report" /\ rep.status = run.status
                 /\ run.status = "ERROR" <=> run.outcome = "raised"
                 /\ run.status = "DONE" <=> run.outcome = "returned")
    /\ [][ncalls' # ncalls => run.pc = "decide" /\ run'.pc = "report"]_vars

C16_Witness ==
    /\ RunEnded
    /\ run.status = "ERROR"
    /\ ~run.import_error
    /\ websocket_failed
    /\ "ok" \notin {rep.events[i] : i \in 1..Len(rep.events)}
    /\ run.outcome = "raised"

\* C17: verification probes first with a fresh connection, and when making the
\* fresh connection fails, or using it for the probe fails, it probes with the
\* supplied connection.
C17_FallsBackToSuppliedConnection ==
    run.pc = "decide" /\ run.credentials =>
        /\ "connect_ok" \in {run.events[i] : i \in 1..Len(run.events)} =>
               run.probed[1] = "fresh"
        /\ \/ "connect_raise" \in {run.events[i] : i \in 1..Len(run.events)}
           \/ run.probeErrored
           => run.probed[Len(run.probed)] = "supplied"

----------------------------------------------------------------------------
(* Claims about websocket_import_files *)

\* a step of the reconciliation or of a report it waits for
ReconciliationStep == LoopNext /\ (run' # run \/ probe' # probe \/ rep' # rep)

\* C18: closing the connection while a reconciliation is in flight cancels
\* nothing: the step of the disconnect leaves the reconciliation, its probe and
\* its report as they are, the handler stays in the reconciliation and does not
\* end before it has ended, and the reconciliation can always take its next step
\* up to its final status and its report.
C18_DisconnectCancelsNothing ==
    /\ [](/\ run.outcome = "running" => loop.pc = "run"
          /\ loop.pc = "ended" => run.outcome # "running"
          /\ run.outcome = "running" => ENABLED ReconciliationStep
          /\ loop.closedInRun /\ loop.pc \in {"receive", "ended"} =>
                 /\ RunEnded
                 /\ run.status \in {"DONE", "ERROR"}
                 /\ RunReports = 1)
    /\ [][loop.connected /\ ~loop'.connected =>
              run' = run /\ probe' = probe /\ rep' = rep]_vars

C18_Witness ==
    /\ loop.closedInRun
    /\ loop.pc = "ended"
    /\ RunEnded
    /\ run.status = "DONE"
    /\ websocket_failed

\* C19: while the reconciliation of a completed upload is in flight, the
\* handler keeps receiving from the connection, so that fragments of other
\* uploads are recorded and a second reconciliation can start before the first
\* has ended.
C19_LoopDrainsDuringReconciliation ==
    run.outcome = "running" /\ loop.connected => loop.pc = "receive"

----------------------------------------------------------------------------
(* Claims about the terminal status of an upload *)

\* a send attempt of the reconciliation's terminal status has been made
TerminalAttempted ==
    /\ rep.op = "send_report"
    /\ rep.status \in {"DONE", "ERROR"}
    /\ run.status = rep.status
    /\ rep.events # <<>>

----------------------------------------------------------------------------
(* Claims about the import loop after a reconciliation *)

\* C22: a reconciliation that raises does not end the loop: the handler sends
\* its report and is at receive_text again on the same connection; the loop
\* ends only when the client has closed the connection (or was never entered),
\* and a later upload is assembled and reconciled.
C22_ErrorDoesNotEndLoop ==
    /\ [](loop.pc = "ended" => loop.last \in {"demo", "accept_failed", "disconnect"})
    /\ [][loop.pc = "run" /\ RunEnded /\ run.outcome = "raised" /\ loop'.pc # "run" =>
              loop'.pc = "report"]_vars
    /\ [][loop.pc = "report" /\ loop'.pc # "report" =>
              loop'.pc = "receive" /\ batches' = batches /\ socket' = socket]_vars
    /\ [](loop.pc = "receive" /\ loop.connected /\ loop.uploads < MaxUploads
          /\ ncalls + 2 <= MaxCalls =>
              ENABLED (\E p \in LoopPayloads : LoopReceive(p)))

\* after a first upload that ended in ERROR with its two reports, a second
\* upload has been assembled and reconciled
C22_Witness ==
    /\ loop.uploads = 2
    /\ ncalls = 3
    /\ RunEnded
    /\ run.status = "DONE"
    /\ call.ret # None

----------------------------------------------------------------------------
(* Claims about the attempts of the existence probe, checked under SpecProbe *)

\* the last event of the probe, "none" before its first attempt
LastEvent == IF probe.events = <<>> THEN "none" ELSE probe.events[Len(probe.events)]

\* the store calls of the last attempt, as a set
Queried == {probe.queries[i] : i \in 1..Len(probe.queries)}

\* C24: on the ranked-search path the probe returns true only if one of the
\* candidates of the ranked search has a title equal to the descriptor's name,
\* letter case included; candidates without such a title make the attempt a miss.
C24_RankedHitNeedsExactTitle ==
    /\ LastEvent = "hit" =>
           /\ probe.outcome = "returned" /\ probe.result
           /\ probe.queries = <<"exists", "bm25">>
           /\ probe.filename \in probe.candidates
           /\ probe.candidates \subseteq store
    /\ (probe.result /\ probe.queries = <<"exists", "bm25">>) =>
           probe.filename \in probe.candidates
    /\ LastEvent = "close" =>
           /\ probe.candidates # {}
           /\ probe.filename \notin probe.candidates
           /\ ~probe.result
           /\ probe.pc \in {"sleep2", "idle"}
           /\ probe.pc = "idle" => probe.outcome = "returned" /\ probe.attempt = 2

\* the ranked search answered "a.pdf" and "AA.pdf" for "A.pdf": a miss
C24_Witness ==
    /\ probe.filename = "A.pdf"
    /\ LastEvent = "close"
    /\ probe.candidates = {"a.pdf", "AA.pdf"}
    /\ probe.pc = "sleep2"

\* the probe is just after an attempt (not after a pause)
AfterAttempt == LastEvent \notin {"none", "sleep1", "sleep2"}

\* C25: in an attempt that finds the collection absent no ranked search and no
\* fallback query is made; the attempt is a miss, followed by a pause of 1 and
\* the next attempt, or, for the last attempt, by the return of false without
\* a pause.
C25_MissingCollectionIsMiss ==
    /\ (AfterAttempt /\ probe.exists = "no") =>
           /\ LastEvent = "nocoll"
           /\ probe.queries = <<"exists">>
           /\ ~probe.result
           /\ probe.attempt < probe_max_retries - 1 =>
                  probe.pc = "sleep1" /\ probe.outcome = "running"
           /\ probe.attempt = probe_max_retries - 1 =>
                  probe.pc = "idle" /\ probe.outcome = "returned"
    /\ LastEvent = "sleep1" =>
           /\ probe.events[Len(probe.events) - 1] = "nocoll"
           /\ probe.pc = "attempt"
           /\ probe.attempt < probe_max_retries

C25_Witness ==
    /\ probe.events = <<"nocoll", "sleep1", "nocoll", "sleep1", "nocoll">>
    /\ probe.outcome = "returned"
    /\ ~probe.result

\* C26: the property-filter query is made only in an attempt whose ranked
\* search timed out, and once; a document in its answer returns true, none makes
\* the attempt a miss (pause of 2 and next attempt, or false on the last one);
\* it is not made when the ranked search answered, with candidates or without,
\* or failed otherwise.
C26_FallbackOnlyAfterTimeout ==
    /\ "fetch_objects" \in Queried <=> probe.ranked = "timeout"
    /\ Cardinality({i \in 1..Len(probe.queries) : probe.queries[i] = "fetch_objects"}) <= 1
    /\ (AfterAttempt /\ probe.ranked = "timeout") =>
           LastEvent \in {"fallback_hit", "fallback_miss", "error_fallback"}
    /\ LastEvent = "fallback_hit" =>
           /\ probe.candidates # {}
           /\ probe.outcome = "returned" /\ probe.result
    /\ LastEvent = "fallback_miss" =>
           /\ probe.candidates = {}
           /\ ~probe.result
           /\ probe.attempt < probe_max_retries - 1 =>
                  probe.pc = "sleep2" /\ probe.outcome = "running"
           /\ probe.attempt = probe_max_retries - 1 =>
                  probe.pc = "idle" /\ probe.outcome = "returned"
    /\ (AfterAttempt /\ LastEvent \in {"hit", "close", "empty", "error_ranked"}) =>
           /\ probe.ranked \in {"objects", "raise"}
           /\ probe.queries = <<"exists", "bm25">>

C26_Witness ==
    /\ probe.events = <<"error_ranked", "sleep2", "fallback_miss", "sleep2", "fallback_hit">>
    /\ probe.outcome = "returned"
    /\ probe.result

\* the events of an attempt in which a store call raised
ProbeErrors == {"error_exists", "error_ranked", "error_fallback"}

\* C27: an error out of the collection test, the ranked search or the query
\* after a timeout does not leave the probe: the attempt is a miss, followed by
\* a pause of 2 and the next attempt, or on the last attempt by the return of
\* false.
C27_AttemptErrorIsMiss ==
    /\ (AfterAttempt /\ (probe.exists = "raise" \/ probe.ranked = "raise")) =>
           LastEvent \in ProbeErrors
    /\ LastEvent \in ProbeErrors =>
           /\ probe.outcome # "raised"
           /\ ~probe.result
           /\ probe.attempt < probe_max_retries - 1 =>
                  probe.pc = "sleep2" /\ probe.outcome = "running"
           /\ probe.attempt = probe_max_retries - 1 =>
                  probe.pc = "idle" /\ probe.outcome = "returned"

C27_Witness ==
    /\ probe.events = <<"error_exists", "sleep2", "error_ranked", "sleep2", "error_fallback">>
    /\ probe.outcome = "returned"
    /\ ~probe.result

\* the pauses among the probe's events
ProbeBackoffs == {i \in 1..Len(probe.events) : probe.events[i] \in {"sleep1", "sleep2"}}

\* C28: the probe makes at most max_retries attempts; an attempt that finds a
\* match is the last event (no attempt and no pause after it); when every
\* attempt misses there are exactly max_retries attempts and max_retries - 1
\* pauses, one between two attempts, and the probe returns false.
C28_BoundedAttempts ==
    /\ Cardinality(ProbeAttempts) <= probe_max_retries
    /\ \A i \in ProbeAttempts :
           probe.events[i] \in ProbeHits =>
               i = Len(probe.events) /\ probe.outcome = "returned" /\ probe.result
    /\ \A i \in ProbeBackoffs : i > 1 /\ i - 1 \in ProbeAttempts
    /\ probe.outcome = "returned" =>
           /\ LastEvent \notin {"sleep1", "sleep2"}
           /\ Cardinality(ProbeBackoffs) = Cardinality(ProbeAttempts) - 1
           /\ ~probe.result =>
                  /\ Cardinality(ProbeAttempts) = probe_max_retries
                  /\ Cardinality(ProbeBackoffs) = probe_max_retries - 1

C28_Witness ==
    /\ probe.events = <<"empty", "sleep2", "nocoll", "sleep1", "close">>
    /\ probe.outcome = "returned"
    /\ ~probe.result

----------------------------------------------------------------------------
(* Claims about the order of the reconciliation's steps, checked under SpecRun *)

\* the steps of the reconciliation so far, the connects of its verification
\* left out
RunStepsDone == SelectSeq(run.events, LAMBDA e : e \notin {"connect_ok", "connect_raise"})

\* the order of the steps: what may stand at each place
RunOrder == <<{"import_ok", "import_raise"}, {"settle"}, {"probe"}, {"report"}, {"finish"}>>

\* C29: every reconciliation takes its steps in the order importer call, settle
\* delay, probe, final report, return or raise; an error of the importer does
\* not end it, the settle delay and the probe come after an importer error as
\* after an importer success.
C29_StepsInOrder ==
    /\ Len(RunStepsDone) <= Len(RunOrder)
    /\ \A i \in 1..Len(RunStepsDone) : RunStepsDone[i] \in RunOrder[i]
    /\ RunEnded => Len(RunStepsDone) = Len(RunOrder)
    /\ run.outcome = "raised" => RunEnded /\ run.status = "ERROR"
    /\ (run.events # <<>> /\ run.events[1] = "import_raise") =>
           /\ run.import_error
           /\ run.pc # "import"
           /\ run.pc = "idle" => Len(RunStepsDone) = Len(RunOrder)
    /\ run.pc \in {"decide", "report"} =>
           Len(RunStepsDone) >= 3 /\ Len(run.probed) >= 1

C29_Witness ==
    /\ RunEnded
    /\ RunStepsDone = <<"import_raise", "settle", "probe", "report", "finish">>
    /\ run.probed = <<"fresh">>
    /\ run.document_exists

----------------------------------------------------------------------------
(* Claims about the reports of one upload, checked under SpecLoop *)

\* the send_report calls made for the upload being handled, or handled last
UploadReports == ncalls - loop.callsBefore

\* C30: when a reconciliation ends in ERROR the handler makes a second
\* send_report call with status ERROR and the message "Resilient import
\* failed: ...", after the one made inside resilient_import_document: two
\* terminal send_report calls for that upload; when it ends in DONE there is
\* exactly one.
C30_TwoReportsOnError ==
    /\ [](/\ loop.pc = "run" => UploadReports = RunReports
          /\ loop.pc = "report" =>
                 /\ RunEnded /\ run.status = "ERROR" /\ run.outcome = "raised"
                 /\ UploadReports = 2
                 /\ rep.op = "send_report" /\ rep.status = "ERROR"
                 /\ loop.message = "Resilient import failed: error"
          /\ (loop.pc \in {"receive", "ended"} /\ RunEnded) =>
                 /\ run.status = "ERROR" => UploadReports = 2 /\ loop.message # "none"
                 /\ run.status = "DONE" => UploadReports = 1 /\ loop.message = "none")
    /\ [][ncalls' # ncalls =>
              /\ ncalls' = ncalls + 1
              /\ rep'.status \in {"DONE", "ERROR"}
              /\ \/ run.pc = "decide" /\ run'.pc = "report"
                 \/ loop.pc = "run" /\ loop'.pc = "report" /\ RunEnded]_vars

C30_Witness ==
    /\ loop.pc = "receive"
    /\ loop.last = "reported"
    /\ run.status = "ERROR"
    /\ UploadReports = 2
    /\ rep.events # <<>>


----------------------------------------------------------------------------
(* Claim about the scope of sessions and reporter health, checked under SpecConn *)

\* neither connection has assembled a payload
NeverMerged == ~call.assembled /\ ~conn.peerCall.assembled

\* a non-terminal report that finds the reporter failed is dropped
DroppedWhenFailed ==
    (rep.op = "send_report" /\ rep.status = "PROCESSING" /\ rep.failedAtEntry)
        => /\ rep.events = <<>>
           /\ rep.pc = "idle"
           /\ websocket_failed

\* C35: every connection has its own BatchManager and LoggerManager. The head
\* and the tail of an upload that arrive under one id on two connections are
\* never assembled together: a fragment of one connection leaves the table of
\* the other as it is. The health of the reporter belongs to the connection,
\* not to an upload: once a report of one upload has driven it to its failed
\* state, a PROCESSING report of any upload of the connection is dropped.
C35_ScopedToOneConnection ==
    /\ [](NeverMerged /\ DroppedWhenFailed)
    /\ [][/\ conn'.peerCall # conn.peerCall => batches' = batches
          /\ call' # call => conn'.peerBatches = conn.peerBatches
          /\ conn'.file_Id # conn.file_Id =>
                 (websocket_failed /\ ~IsCritical(rep'.status) => websocket_failed')]_vars

\* both connections hold a session of upload f1, each with its own fragment,
\* and a PROCESSING report of upload f2 was dropped by the reporter that a
\* report of upload f1 had driven to its failed state
C35_Witness ==
    /\ batches["f1"].present /\ Len(batches["f1"].chunks) = 1
    /\ conn.peerBatches["f1"].present /\ Len(conn.peerBatches["f1"].chunks) = 1
    /\ rep.op = "send_report" /\ rep.status = "PROCESSING"
    /\ rep.failedAtEntry /\ rep.events = <<>>
    /\ conn.failedBy = "f1" /\ conn.file_Id = "f2"


----------------------------------------------------------------------------
(* Claim about the fallback query of the probe, checked under SpecLoose *)

\* C36: in an attempt that reaches the fallback query, any object of its answer
\* makes the probe return true, whatever its title: an attempt is a fallback
\* miss only when the answer is empty. The title of a document is compared with
\* the descriptor's name, letter case included, only in the ranked branch.
C36_FallbackTakesAnyObject ==
    /\ LastEvent = "fallback_hit" =>
           /\ probe.candidates # {}
           /\ probe.outcome = "returned" /\ probe.result
    /\ LastEvent = "fallback_miss" => (probe.candidates = {} /\ ~probe.result)
    /\ LastEvent = "hit" => \E doc \in probe.candidates : doc = probe.filename
    /\ LastEvent = "close" =>
           /\ probe.candidates # {}
           /\ \A doc \in probe.candidates : doc # probe.filename

\* the probe for "A.pdf" has returned true on a fallback answer that holds
\* "a.pdf" only
C36_Witness ==
    /\ probe.filename = "A.pdf"
    /\ LastEvent = "fallback_hit"
    /\ probe.candidates = {"a.pdf"}
    /\ probe.outcome = "returned" /\ probe.result


----------------------------------------------------------------------------
(* Claim about the connection the reconciliation probes with, checked under SpecRun *)

\* the steps of the current reconciliation, as a set
RunEvents == {run.events[i] : i \in 1..Len(run.events)}

\* the verification of the current reconciliation is over
Verified == run.pc \in {"decide", "report"} \/ RunEnded

\* C37: a reconciliation without credentials never calls the connection
\* factory and probes exactly once, with the connection it was handed; one with
\* credentials whose fresh connection was established never probes with the
\* connection it was handed.
C37_ProbeConnection ==
    /\ ~run.credentials =>
           /\ RunEvents \cap {"connect_ok", "connect_raise"} = {}
           /\ Len(run.probed) <= 1
           /\ Verified /\ run.events # <<>> => run.probed = <<"supplied">>
    /\ (run.credentials /\ "connect_ok" \in RunEvents) =>
           /\ run.probed # <<>>
           /\ \A i \in 1..Len(run.probed) : run.probed[i] = "fresh"

\* a reconciliation with credentials has connected afresh, probed with the
\* fresh connection and ended
C37_Witness ==
    /\ RunEnded
    /\ run.credentials
    /\ "connect_ok" \in RunEvents
    /\ run.probed = <<"fresh">>

\* a reconciliation without credentials has probed once, with the connection
\* it was handed, and ended
C37_WitnessNoCredentials ==
    /\ RunEnded
    /\ ~run.credentials
    /\ run.probed = <<"supplied">>
    /\ Cardinality({i \in 1..Len(run.events) : run.events[i] = "probe"}) = 1


----------------------------------------------------------------------------
(* Claim about the Demo deployment mode, checked under SpecLoop *)

\* the handler was called in Demo mode
DemoCalled == loop.pc # "none" /\ loop.production = "Demo"

\* C38: in Demo mode the handler returns before it accepts the connection: no
\* fragment is recorded and no session made, no reporter call, no import, no
\* probe and no reconciliation is started, and nothing the client does
\* afterwards changes that.
C38_DemoDoesNothing ==
    /\ [](DemoCalled =>
            /\ loop.pc = "ended" /\ loop.last = "demo"
            /\ ~loop.connected /\ ~socket
            /\ call = NoCall
            /\ \A f \in FileIDs : ~batches[f].present
            /\ loop.uploads = 0
            /\ run = NoRun /\ probe = NoProbe
            /\ rep = NoRep /\ ncalls = 0)
    /\ [][~DemoCalled]_vars

\* the handler was called in Demo mode and has returned
C38_Witness ==
    /\ loop.production = "Demo"
    /\ loop.pc = "ended"
    /\ loop.last = "demo"


----------------------------------------------------------------------------
(* Claim about the end of a reconciliation, checked under SpecTerm *)

\* the loops of a reconciliation stay within their bounds
LoopsBounded ==
    /\ probe.attempt < probe_max_retries \/ probe.pc = "idle"
    /\ Cardinality(ProbeAttempts) <= probe_max_retries
    /\ Cardinality(Attempts(rep.events)) <= max_retries

\* a reconciliation ends by a return after a DONE report or by an error after
\* an ERROR report
EndsEitherWay ==
    RunEnded =>
        \/ run.outcome = "returned" /\ run.status = "DONE"
        \/ run.outcome = "raised" /\ run.status = "ERROR"

\* C39: when every call of a collaborator returns or raises, every
\* reconciliation ends: the probe makes at most max_retries attempts, a report
\* at most 3 send attempts, and the function comes to its return after a DONE
\* report or to its raise after an ERROR report.
C39_ReconciliationTerminates ==
    /\ [](LoopsBounded /\ EndsEitherWay)
    /\ (run.outcome = "running") ~> RunEnded

\* a reconciliation has ended after 3 probe attempts and a report of 3 send
\* attempts
C39_Witness ==
    /\ RunEnded
    /\ run.outcome = "raised"
    /\ Cardinality(Attempts(rep.events)) = max_retries
    /\ rep.status = "ERROR"
    /\ run.probeErrored

====
